---- MODULE Spec2Model ----
\* RFC 9457 problem documents (package rfc9457): the extension registry, the
\* logger, Response.UnmarshalJSON with its trial decode of extension elements,
\* and the encoding/json encoding of a Response.
EXTENDS Integers, Sequences, FiniteSets, TLC

VARIABLES
    registeredExtensions, \* extensions.go: the process-wide prototype list
    logger,               \* logger.go: TRUE when a *slog.Logger is set, FALSE when nil
    regHistory,           \* history: the prototypes passed to RegisterExtension, in call order
    data,                 \* the bytes handed to the next decode, as a JSON value
    r,                    \* the receiving *Response
    res,                  \* the decode call of this run and its outcome
    encoded,              \* the bytes last produced by json.Marshal
    original,             \* the Response a round trip starts from
    conc,                 \* goroutines decoding and registering concurrently
    reencoded,            \* the bytes produced by marshalling a decoded Response again
    rw                    \* the http.ResponseWriter handed to Response.Write

vars == <<registeredExtensions, logger, regHistory, data, r, res, encoded, original, conc, reencoded, rw>>

-----------------------------------------------------------------------------
\* Bounds of the model.

MaxReg == 2        \* registrations per run
MaxExt == 2        \* elements of an extensions array drawn freely
MaxAdd == 1        \* extensions a document may hold for AddExtension to add one more

-----------------------------------------------------------------------------
\* JSON values as the decoder sees them (jsontext.Value).  A string holds its
\* wire tokens; an object holds its members in wire order, so duplicate names
\* are representable; "bad" is any byte string that is not one JSON value.

JNull == [k |-> "null"]
JNum(lit) == [k |-> "num", lit |-> lit]
JStr(w) == [k |-> "str", w |-> w]
JObj(m) == [k |-> "obj", m |-> m]
JArr(a) == [k |-> "arr", a |-> a]
JBad == [k |-> "bad"]

\* A JSON number holds its literal: an optional "-" and decimal digits.
Digits == <<"0", "1", "2", "3", "4", "5", "6", "7", "8", "9">>
DigitValue(c) == (CHOOSE i \in DOMAIN Digits : Digits[i] = c) - 1

\* strconv formatting of an int, as the encoder writes it.
RECURSIVE FormatNat(_)
FormatNat(n) ==
    IF n < 10 THEN <<Digits[n + 1]>> ELSE FormatNat(n \div 10) \o <<Digits[(n % 10) + 1]>>

\* Variant of FormatInt that writes the magnitude only.
FormatInt_NoSign(n) == IF n < 0 THEN FormatNat(0 - n) ELSE FormatNat(n)

FormatInt(n) == IF n < 0 THEN <<"-">> \o FormatNat(0 - n) ELSE FormatNat(n)

\* Parsing of an integer literal, as the decoder reads it into an int.
RECURSIVE ParseNat(_, _)
ParseNat(lit, acc) ==
    IF lit = <<>> THEN acc ELSE ParseNat(Tail(lit), 10 * acc + DigitValue(Head(lit)))

\* Variant of ParseInt that reads the digits and drops the sign.
ParseInt_Magnitude(lit) ==
    IF Head(lit) = "-" THEN ParseNat(Tail(lit), 0) ELSE ParseNat(lit, 0)

ParseInt(lit) ==
    IF Head(lit) = "-" THEN 0 - ParseNat(Tail(lit), 0) ELSE ParseNat(lit, 0)

Num(n) == JNum(FormatInt(n))

\* A JSON string on the wire is a sequence of tokens, each a character written
\* as itself or an escape; a Go string is a sequence of characters.  "BAD" is
\* a byte that is not valid UTF-8, "FFFD" the replacement rune U+FFFD,
\* "U+0008" backspace, "U+0001" a control character without a short escape,
\* "U+2028" and "U+2029" the line and paragraph separators; "\n", "\t", "\r"
\* and "\f" are the control characters themselves.

\* The two-character escapes of JSON and the characters they stand for.
ShortEscapes ==
    <<<<"\\\"", "\"">>, <<"\\\\", "\\">>, <<"\\/", "/">>, <<"\\b", "U+0008">>,
      <<"\\f", "\f">>, <<"\\n", "\n">>, <<"\\r", "\r">>, <<"\\t", "\t">>>>

\* The escapes \uXXXX of the code points the model writes or reads, in the
\* lower-case form the encoder writes and, for U+003C, in upper case too.
UnicodeEscapes ==
    <<<<"\\u003c", "<">>, <<"\\u003C", "<">>, <<"\\u003e", ">">>, <<"\\u0026", "&">>,
      <<"\\ufffd", "FFFD">>, <<"\\u2028", "U+2028">>, <<"\\u2029", "U+2029">>,
      <<"\\u0001", "U+0001">>, <<"\\u0008", "U+0008">>, <<"\\u000a", "\n">>,
      <<"\\u0041", "A">>>>

EscapeTable == ShortEscapes \o UnicodeEscapes

IsEscape(t) == \E i \in DOMAIN EscapeTable : EscapeTable[i][1] = t

\* Characters below U+0020.
ControlChars == {"\n", "\t", "\r", "\f", "U+0008", "U+0001"}

\* The character a wire token decodes to: an escape to the character it
\* stands for, any other token to itself.
UnescapeToken(t) ==
    IF IsEscape(t)
    THEN EscapeTable[CHOOSE i \in DOMAIN EscapeTable : EscapeTable[i][1] = t][2]
    ELSE t

RECURSIVE Unescape(_)
Unescape(w) ==
    IF w = <<>> THEN <<>> ELSE <<UnescapeToken(Head(w))>> \o Unescape(Tail(w))

\* A token the decoder refuses inside a string: a byte that is not valid
\* UTF-8, a control character, quote or backslash written as itself, and a
\* backslash followed by a character that begins no escape ("\\x").
InvalidToken(t) == t \in {"BAD", "\"", "\\", "\\x"} \cup ControlChars

\* jsonv2 rejects a string that holds such a token.
ValidWire(w) == \A i \in DOMAIN w : ~InvalidToken(w[i])

HasDuplicateNames(m) ==
    \E i, j \in DOMAIN m : i # j /\ m[i][1] = m[j][1]

\* Syntactic validity as jsonv2 enforces it on the whole input: well-formed,
\* valid UTF-8, no duplicate object names at any depth.
RECURSIVE Valid(_)
Valid(v) ==
    CASE v.k = "bad" -> FALSE
      [] v.k = "str" -> ValidWire(v.w)
      [] v.k = "obj" -> /\ ~HasDuplicateNames(v.m)
                        /\ \A i \in DOMAIN v.m : Valid(v.m[i][2])
      [] v.k = "arr" -> \A i \in DOMAIN v.a : Valid(v.a[i])
      [] OTHER -> TRUE

HasMember(m, name) == \E i \in DOMAIN m : m[i][1] = name
Member(m, name) == m[CHOOSE i \in DOMAIN m : m[i][1] = name][2]

-----------------------------------------------------------------------------
\* Go types of prototypes (reflect.Type) and Go values.

TInt == [t |-> "int"]
TString == [t |-> "string"]
TStruct(name, fields) == [t |-> "struct", name |-> name, fields |-> fields]
TPtr(e) == [t |-> "ptr", e |-> e]
\* The untyped nil Extension: reflect.TypeOf gives the nil Type for it.
NilProto == [t |-> "nil"]

\* struct{ Code int `json:"code"`; Message string `json:"message"` }
CodeMessage == TStruct("CodeMessage", <<<<"code", TInt>>, <<"message", TString>>>>)
\* struct{ Code int `json:"code"` }
CodeOnly == TStruct("CodeOnly", <<<<"code", TInt>>>>)

GoNil == [g |-> "nil"]
GoInt(n) == [g |-> "int", n |-> n]
GoString(s) == [g |-> "string", s |-> s]
GoFloat(n) == [g |-> "float64", n |-> n]
GoStruct(name, f) == [g |-> "struct", name |-> name, f |-> f]
GoMap(isnil, m) == [g |-> "map", isnil |-> isnil, m |-> m]
GoSlice(a) == [g |-> "slice", a |-> a]

Zero(T) ==
    CASE T.t = "int" -> GoInt(0)
      [] T.t = "string" -> GoString(<<>>)
      [] OTHER -> GoNil

\* jsonv2.Unmarshal into an int or a string: null leaves the zero value, the
\* matching JSON kind is converted, anything else is a SemanticError.
UnmarshalScalar(raw, T) ==
    CASE raw.k = "null" -> [ok |-> TRUE, v |-> Zero(T)]
      [] T.t = "int" /\ raw.k = "num" -> [ok |-> TRUE, v |-> GoInt(ParseInt(raw.lit))]
      [] T.t = "string" /\ raw.k = "str" -> [ok |-> TRUE, v |-> GoString(Unescape(raw.w))]
      [] OTHER -> [ok |-> FALSE, v |-> Zero(T)]

FieldNames(T) == {T.fields[i][1] : i \in DOMAIN T.fields}
FieldType(T, name) == T.fields[CHOOSE i \in DOMAIN T.fields : T.fields[i][1] = name][2]

\* jsonv2.Unmarshal into a struct: null gives the zero struct; an object sets
\* the fields it names and ignores unknown members (the v2 default); a member
\* whose value does not convert to its field's type fails the parse.
ZeroStruct(T) == GoStruct(T.name, [n \in FieldNames(T) |-> Zero(FieldType(T, n))])

\* The struct from its parsed fields.
StructOf(T, f) ==
    [ok |-> \A n \in FieldNames(T) : f[n].ok,
     v |-> GoStruct(T.name, [n \in FieldNames(T) |-> f[n].v])]

\* The member of object raw parsed into field n of T; an absent member leaves
\* the field at its zero value.
StructField(raw, T, n) ==
    IF HasMember(raw.m, n) THEN UnmarshalScalar(Member(raw.m, n), FieldType(T, n))
    ELSE [ok |-> TRUE, v |-> Zero(FieldType(T, n))]

UnmarshalStruct(raw, T) ==
    CASE raw.k = "null" -> [ok |-> TRUE, v |-> ZeroStruct(T)]
      [] raw.k = "obj" -> StructOf(T, [n \in FieldNames(T) |-> StructField(raw, T, n)])
      [] OTHER -> [ok |-> FALSE, v |-> ZeroStruct(T)]

\* jsonv2.Unmarshal(raw, reflect.New(valueType).Interface())
Unmarshal(raw, T) ==
    IF T.t = "struct" THEN UnmarshalStruct(raw, T) ELSE UnmarshalScalar(raw, T)

\* jsonv2.Unmarshal into an `any`: the natural Go value of each JSON kind.
RECURSIVE UnmarshalAny(_)
UnmarshalAny(raw) ==
    CASE raw.k = "null" -> GoNil
      [] raw.k = "num" -> GoFloat(ParseInt(raw.lit))
      [] raw.k = "str" -> GoString(Unescape(raw.w))
      [] raw.k = "arr" -> GoSlice([i \in DOMAIN raw.a |-> UnmarshalAny(raw.a[i])])
      [] OTHER ->
           GoMap(FALSE, [n \in {raw.m[i][1] : i \in DOMAIN raw.m} |->
                            UnmarshalAny(Member(raw.m, n))])

\* jsonv2.Unmarshal(raw, &fallback) with fallback a nil map[string]any.
UnmarshalMap(raw) ==
    CASE raw.k = "null" -> [ok |-> TRUE, v |-> GoMap(TRUE, <<>>)]
      [] raw.k = "obj" -> [ok |-> TRUE, v |-> UnmarshalAny(raw)]
      [] OTHER -> [ok |-> FALSE, v |-> GoNil]

-----------------------------------------------------------------------------
\* The logger (logger.go).

\* Variant of EnsureLogger that panics whether or not a logger is set.
EnsureLogger_Always(lg) == TRUE

\* EnsureLogger: panics when no logger is set.  TRUE means "panics".
EnsureLogger(lg) == lg = FALSE

\* Logger(): EnsureLogger, then the logger.
Logger(lg) == [panic |-> EnsureLogger(lg)]

NoMatchMsg == "Extension did not match any registered type, using map[string]any"
FailedMsg == "Failed to unmarshal extension"

-----------------------------------------------------------------------------
\* The registry (extensions.go) and the trial decode (response.go).

\* Variant of ValueType that keeps a pointer type as it is.
ValueType_NoDeref(p) == p

\* reflect.TypeOf(registeredExt), dereferenced once when it is a pointer type.
ValueType(p) == IF p.t = "ptr" THEN p.e ELSE p

\* Variant of TryRegistered in which the loop does not stop at the first
\* prototype that parses raw, so the last one that parses it decides.
TryRegistered_LastWins(raw, reg, j) ==
    LET hits == {k \in j..Len(reg) : Unmarshal(raw, ValueType(reg[k])).ok}
        last == CHOOSE k \in hits : \A h \in hits : h <= k
    IN  IF hits = {}
        THEN [found |-> FALSE, v |-> GoNil, trials |-> Len(reg), panic |-> FALSE]
        ELSE [found |-> TRUE, v |-> Unmarshal(raw, ValueType(reg[last])).v,
              trials |-> Len(reg), panic |-> FALSE]

\* registeredType.Kind() on the nil Type of an untyped nil prototype is a
\* method call on a nil interface: it panics.
KindPanics(p) == p.t = "nil"

\* The loop over registeredExtensions from position j: the first prototype
\* whose value type parses raw ends the loop; an untyped nil prototype that
\* the loop reaches panics.
RECURSIVE TryRegistered(_, _, _)
\* One pass of the loop body, u being the outcome of the trial parse.
TryOne(raw, reg, j, u) ==
    IF u.ok THEN [found |-> TRUE, v |-> u.v, trials |-> j, panic |-> FALSE]
    ELSE TryRegistered(raw, reg, j + 1)

TryRegistered(raw, reg, j) ==
    IF j > Len(reg)
    THEN [found |-> FALSE, v |-> GoNil, trials |-> Len(reg), panic |-> FALSE]
    ELSE IF KindPanics(reg[j])
    THEN [found |-> FALSE, v |-> GoNil, trials |-> j - 1, panic |-> TRUE]
    ELSE TryOne(raw, reg, j, Unmarshal(raw, ValueType(reg[j])))

\* Variant of unmarshalExtension that takes the fallback without logging it.
Resolved_Silent(t, fb, index, lg) ==
    IF t.found
    THEN [ext |-> t.v, err |-> FALSE, panic |-> FALSE, logs |-> <<>>, trials |-> t.trials]
    ELSE [ext |-> fb.v, err |-> ~fb.ok, panic |-> FALSE, logs |-> <<>>,
          trials |-> t.trials]

unmarshalExtension_Silent(raw, index, reg, lg) ==
    Resolved_Silent(TryRegistered(raw, reg, 1), UnmarshalMap(raw), index, lg)

\* unmarshalExtension(raw, index) under registry reg and logger lg.
\* What unmarshalExtension returns, t being the outcome of the loop over the
\* registry and fb that of the fallback parse into a map[string]any.
Resolved(t, fb, index, lg) ==
    IF t.panic
    THEN [ext |-> GoNil, err |-> FALSE, panic |-> TRUE, logs |-> <<>>, trials |-> t.trials]
    ELSE IF t.found
    THEN [ext |-> t.v, err |-> FALSE, panic |-> FALSE, logs |-> <<>>, trials |-> t.trials]
    ELSE IF ~fb.ok
    THEN [ext |-> GoNil, err |-> TRUE, panic |-> FALSE, logs |-> <<>>, trials |-> t.trials]
    ELSE IF Logger(lg).panic
    THEN [ext |-> GoNil, err |-> FALSE, panic |-> TRUE, logs |-> <<>>, trials |-> t.trials]
    ELSE [ext |-> fb.v, err |-> FALSE, panic |-> FALSE,
          logs |-> <<[msg |-> NoMatchMsg, index |-> index]>>, trials |-> t.trials]

unmarshalExtension(raw, index, reg, lg) ==
    Resolved(TryRegistered(raw, reg, 1), UnmarshalMap(raw), index, lg)

\* Variant of RegistryAppend that keeps one entry per prototype.
RegistryAppend_Dedup(reg, ext) ==
    IF \E i \in DOMAIN reg : reg[i] = ext THEN reg ELSE Append(reg, ext)

\* Variant of RegistryAppend that puts the new prototype in front.
RegistryAppend_Front(reg, ext) == <<ext>> \o reg

\* RegisterExtension's append.
RegistryAppend(reg, ext) == Append(reg, ext)

-----------------------------------------------------------------------------
\* Response and Response.UnmarshalJSON (response.go).

Response(ty, ti, st, de, in, ex) ==
    [Type |-> ty, Title |-> ti, Status |-> st, Detail |-> de, Instance |-> in,
     Extensions |-> ex]

ZeroResponse == Response(<<>>, <<>>, 0, <<>>, <<>>, <<>>)

\* (r *Response).AddExtension(ext): the document with ext appended.
AddExtension(rcv, ext) == [rcv EXCEPT !.Extensions = Append(@, ext)]

StringFields == {"type", "title", "detail", "instance"}

\* The member of object d parsed into a field of type T; an absent member
\* leaves the field at its zero value.
ParseField(d, n, T) ==
    IF HasMember(d.m, n) THEN UnmarshalScalar(Member(d.m, n), T)
    ELSE [ok |-> TRUE, v |-> Zero(T)]

\* The extensions member parsed into a []jsontext.Value.
ParseRawArray(e) ==
    CASE e.k = "null" -> [ok |-> TRUE, v |-> <<>>]
      [] e.k = "arr" -> [ok |-> TRUE, v |-> e.a]
      [] OTHER -> [ok |-> FALSE, v |-> <<>>]

ParseExtensions(d) ==
    IF HasMember(d.m, "extensions") THEN ParseRawArray(Member(d.m, "extensions"))
    ELSE [ok |-> TRUE, v |-> <<>>]

ZeroAlias ==
    [type |-> <<>>, title |-> <<>>, status |-> 0, detail |-> <<>>, instance |-> <<>>,
     extensions |-> <<>>]

\* The alias struct from the parsed members: f the string fields, st the
\* status, ex the extensions.
AliasOf(f, st, ex) ==
    IF (\A n \in StringFields : f[n].ok) /\ st.ok /\ ex.ok
    THEN [ok |-> TRUE,
          temp |-> [type |-> f["type"].v.s, title |-> f["title"].v.s,
                    status |-> st.v.n, detail |-> f["detail"].v.s,
                    instance |-> f["instance"].v.s, extensions |-> ex.v]]
    ELSE [ok |-> FALSE, temp |-> ZeroAlias]

\* jsonv2.Unmarshal(data, &temp) for the responseAlias struct.
ParseAlias(d) ==
    IF ~Valid(d) THEN [ok |-> FALSE, temp |-> ZeroAlias]
    ELSE CASE d.k = "null" -> [ok |-> TRUE, temp |-> ZeroAlias]
           [] d.k = "obj" ->
                AliasOf([n \in StringFields |-> ParseField(d, n, TString)],
                        ParseField(d, "status", TInt), ParseExtensions(d))
           [] OTHER -> [ok |-> FALSE, temp |-> ZeroAlias]

\* Variant of AppendResolved that puts the new entry in front of the others.
AppendResolved_Prepend(exts, u) == <<u.ext>> \o exts

\* What the loop does with one resolved element: a failed element is logged
\* (Logger() panics without a logger) and ext, nil on failure, is appended.
AppendResolved(exts, u) == Append(exts, u.ext)

\* Variant of ResolveFrom that returns from the loop at the first element that
\* fails to resolve.
RECURSIVE ResolveFrom_StopOnError(_, _, _, _, _)
ResolveStep_StopOnError(raws, i, reg, lg, acc, u) ==
    IF u.panic \/ (u.err /\ Logger(lg).panic)
    THEN [acc EXCEPT !.panic = TRUE, !.trials = @ + u.trials]
    ELSE IF u.err
    THEN [acc EXCEPT !.trials = @ + u.trials,
                     !.logs = @ \o <<[msg |-> FailedMsg, index |-> i - 1]>>]
    ELSE ResolveFrom_StopOnError(raws, i + 1, reg, lg,
           [exts |-> Append(acc.exts, u.ext), logs |-> acc.logs \o u.logs,
            trials |-> acc.trials + u.trials, panic |-> FALSE])

ResolveFrom_StopOnError(raws, i, reg, lg, acc) ==
    IF i > Len(raws) THEN acc
    ELSE ResolveStep_StopOnError(raws, i, reg, lg, acc,
                                 unmarshalExtension(raws[i], i - 1, reg, lg))

\* Variant of ResolveFrom that logs a failed element only when a logger is
\* set, instead of going through Logger().
RECURSIVE ResolveFrom_OptionalLogger(_, _, _, _, _)
ResolveStep_OptionalLogger(raws, i, reg, lg, acc, u) ==
    IF u.panic
    THEN [acc EXCEPT !.panic = TRUE, !.trials = @ + u.trials]
    ELSE ResolveFrom_OptionalLogger(raws, i + 1, reg, lg,
           [exts |-> Append(acc.exts, u.ext),
            logs |-> acc.logs \o u.logs \o
                     (IF u.err /\ lg THEN <<[msg |-> FailedMsg, index |-> i - 1]>>
                      ELSE <<>>),
            trials |-> acc.trials + u.trials,
            panic |-> FALSE])

ResolveFrom_OptionalLogger(raws, i, reg, lg, acc) ==
    IF i > Len(raws) THEN acc
    ELSE ResolveStep_OptionalLogger(raws, i, reg, lg, acc,
                                    unmarshalExtension(raws[i], i - 1, reg, lg))

\* The loop over temp.Extensions from element i, with the state accumulated so
\* far; a panic leaves the loop at once.
RECURSIVE ResolveFrom(_, _, _, _, _)
\* One pass of the loop body, u being what unmarshalExtension returned.
ResolveStep(raws, i, reg, lg, acc, u) ==
    IF u.panic
    THEN [acc EXCEPT !.panic = TRUE, !.trials = @ + u.trials]
    ELSE IF u.err /\ Logger(lg).panic
    THEN [acc EXCEPT !.panic = TRUE, !.trials = @ + u.trials]
    ELSE ResolveFrom(raws, i + 1, reg, lg,
           [exts |-> AppendResolved(acc.exts, u),
            logs |-> acc.logs \o u.logs \o
                     (IF u.err THEN <<[msg |-> FailedMsg, index |-> i - 1]>>
                      ELSE <<>>),
            trials |-> acc.trials + u.trials,
            panic |-> FALSE])

ResolveFrom(raws, i, reg, lg, acc) ==
    IF i > Len(raws) THEN acc
    ELSE ResolveStep(raws, i, reg, lg, acc, unmarshalExtension(raws[i], i - 1, reg, lg))

\* The state of the loop before its first pass.
NoneResolved == [exts |-> <<>>, logs |-> <<>>, trials |-> 0, panic |-> FALSE]

\* The receiver and outcome once the loop has ended in state x.
Populate(temp, x) ==
    [out |-> IF x.panic THEN "panic" ELSE "ok",
     r |-> Response(temp.type, temp.title, temp.status, temp.detail, temp.instance,
                    x.exts),
     logs |-> x.logs,
     trials |-> x.trials]

\* Variant of DecodeParsed that appends to the extensions the receiver holds.
DecodeParsed_AppendToPrior(rcv, p, reg, lg) ==
    IF ~p.ok
    THEN [out |-> "err", r |-> rcv, logs |-> <<>>, trials |-> 0]
    ELSE Populate(p.temp, ResolveFrom(p.temp.extensions, 1, reg, lg,
                                      [NoneResolved EXCEPT !.exts = rcv.Extensions]))

\* Variant of DecodeParsed that copies the fields of temp to the receiver
\* before it looks at the error.
DecodeParsed_CopyFirst(rcv, p, reg, lg) ==
    IF ~p.ok
    THEN [out |-> "err",
          r |-> Response(p.temp.type, p.temp.title, p.temp.status, p.temp.detail,
                         p.temp.instance, rcv.Extensions),
          logs |-> <<>>, trials |-> 0]
    ELSE Populate(p.temp, ResolveFrom(p.temp.extensions, 1, reg, lg, NoneResolved))

\* UnmarshalJSON after jsonv2.Unmarshal(data, &temp) gave p.
DecodeParsed(rcv, p, reg, lg) ==
    IF ~p.ok
    THEN [out |-> "err", r |-> rcv, logs |-> <<>>, trials |-> 0]
    ELSE Populate(p.temp, ResolveFrom(p.temp.extensions, 1, reg, lg, NoneResolved))

\* The extensions array of d as written, whether or not the alias parses.
ExtensionsAsWritten(d) ==
    IF d.k = "obj" /\ Valid(d) /\ HasMember(d.m, "extensions")
       /\ Member(d.m, "extensions").k = "arr"
    THEN Member(d.m, "extensions").a ELSE <<>>

DecodeParsed_IgnoreError(rcv, d, p, reg, lg) ==
    Populate(p.temp, ResolveFrom(ExtensionsAsWritten(d), 1, reg, lg, NoneResolved))

\* Variant of UnmarshalJSON that goes on after a failed parse of the alias.
UnmarshalJSON_IgnoreError(rcv, d, reg, lg) ==
    DecodeParsed_IgnoreError(rcv, d, ParseAlias(d), reg, lg)

\* (r *Response).UnmarshalJSON(data) on receiver rcv: the outcome ("ok", "err"
\* or "panic"), the receiver afterwards, the records logged and the number of
\* prototype trial parses made.
UnmarshalJSON(rcv, d, reg, lg) == DecodeParsed(rcv, ParseAlias(d), reg, lg)

-----------------------------------------------------------------------------
\* Encoding (encoding/json Marshal of a *Response; Response has no MarshalJSON,
\* so the struct tags decide).

\* A Go string as a JSON string: HTML characters and quotes are escaped, a
\* byte that is not valid UTF-8 is written as the replacement rune's escape.
\* The token encoding/json writes for a character of a Go string: quote,
\* backslash and the control characters with a short form as two-character
\* escapes, any other control character, the HTML characters <, > and &, the
\* separators U+2028 and U+2029 and a byte that is not valid UTF-8 as \uXXXX,
\* every other character (the rune U+FFFD and "/" among them) as itself.
EscapeChar(c) ==
    CASE c = "\"" -> "\\\""
      [] c = "\\" -> "\\\\"
      [] c = "U+0008" -> "\\b"
      [] c = "\f" -> "\\f"
      [] c = "\n" -> "\\n"
      [] c = "\r" -> "\\r"
      [] c = "\t" -> "\\t"
      [] c = "U+0001" -> "\\u0001"
      [] c = "<" -> "\\u003c"
      [] c = ">" -> "\\u003e"
      [] c = "&" -> "\\u0026"
      [] c = "U+2028" -> "\\u2028"
      [] c = "U+2029" -> "\\u2029"
      [] c = "BAD" -> "\\ufffd"
      [] OTHER -> c

RECURSIVE Escape(_)
Escape(s) == IF s = <<>> THEN <<>> ELSE <<EscapeChar(Head(s))>> \o Escape(Tail(s))

\* Object names the model uses, in the sorted order in which a map is encoded.
KeyOrder == <<"code", "foo", "message">>

StructType(name) == IF name = "CodeMessage" THEN CodeMessage ELSE CodeOnly

\* The keys of map m in encoding order.
SortedKeys(m) == SelectSeq(KeyOrder, LAMBDA n : n \in DOMAIN m)

\* Marshal of an extension value, by its own natural shape.
RECURSIVE MarshalValue(_)
MarshalValue(v) ==
    CASE v.g = "nil" -> JNull
      [] v.g = "int" -> Num(v.n)
      [] v.g = "float64" -> Num(v.n)
      [] v.g = "string" -> JStr(Escape(v.s))
      [] v.g = "slice" -> JArr([i \in DOMAIN v.a |-> MarshalValue(v.a[i])])
      [] v.g = "struct" ->
           JObj([i \in DOMAIN StructType(v.name).fields |->
                    <<StructType(v.name).fields[i][1],
                      MarshalValue(v.f[StructType(v.name).fields[i][1]])>>])
      [] OTHER ->
           IF v.isnil THEN JNull
           ELSE JObj([i \in DOMAIN SortedKeys(v.m) |->
                        <<SortedKeys(v.m)[i], MarshalValue(v.m[SortedKeys(v.m)[i]])>>])

\* Variant of OmitEmpty that writes the field whatever it holds.
OmitEmpty_Never(name, isEmpty, val) == <<<<name, val>>>>

\* A field tagged omitempty is left out when it is empty.
OmitEmpty(name, isEmpty, val) == IF isEmpty THEN <<>> ELSE <<<<name, val>>>>

\* json.Marshal(r): the members in struct order.
Marshal(rcv) ==
    JObj(<<<<"type", JStr(Escape(rcv.Type))>>,
           <<"title", JStr(Escape(rcv.Title))>>,
           <<"status", Num(rcv.Status)>>>>
         \o OmitEmpty("detail", rcv.Detail = <<>>, JStr(Escape(rcv.Detail)))
         \o OmitEmpty("instance", rcv.Instance = <<>>, JStr(Escape(rcv.Instance)))
         \o OmitEmpty("extensions", rcv.Extensions = <<>>,
                      JArr([i \in DOMAIN rcv.Extensions |->
                               MarshalValue(rcv.Extensions[i])])))

-----------------------------------------------------------------------------
\* Inputs of the model.

\* Prototypes are identified with their reflect.Type.
Protos == {CodeMessage, TPtr(CodeMessage), CodeOnly, TInt}

ObjCodeMessage == JObj(<<<<"code", Num(5)>>, <<"message", JStr(<<"x">>)>>>>)
ObjFooBar == JObj(<<<<"foo", JStr(<<"b", "a", "r">>)>>>>)
ObjCodeString == JObj(<<<<"code", JStr(<<"x">>)>>>>)

Elems == {ObjCodeMessage, ObjCodeString, Num(5), JNull}

\* A document whose title has the wire tokens w (FuzzResponseUnmarshal's
\* seeds with special characters).
TitleDoc(w) ==
    JObj(<<<<"type", JStr(<<"t">>)>>, <<"title", JStr(w)>>, <<"status", Num(400)>>>>)

\* Arrays of particular interest, whatever MaxExt is.
ScenarioArrays ==
    {<<ObjFooBar>>,
     <<ObjCodeMessage, ObjFooBar>>,
     <<ObjFooBar, Num(5), ObjCodeString>>,
     <<ObjCodeMessage, Num(5), JNull>>}

ExtArrays == UNION {[1..n -> Elems] : n \in 0..MaxExt} \cup ScenarioArrays

Str(s) == JStr(s)

DocWith(st, exts) ==
    JObj(<<<<"type", Str(<<"t">>)>>, <<"title", Str(<<"x">>)>>, <<"status", st>>,
           <<"extensions", exts>>>>)

\* Documents that vary the structure around a one-element extensions array.
StructuralDocs ==
    {JBad, JNull, Num(1), Str(<<"x">>), JArr(<<>>), JObj(<<>>),
     Str(<<"BAD">>),
     TitleDoc(<<"E", "\\n", "w", "\\n", "n">>),
     TitleDoc(<<"E", "\\\\", "n", "w", "\\\\", "t", "e">>),
     TitleDoc(<<"\\\"", "\\t", "\\/", "\\u0041", "\\u003C", "\\b">>),
     TitleDoc(<<"E", "\n", "w">>),
     TitleDoc(<<"E", "\\x">>),
     DocWith(Str(<<"4">>), JArr(<<ObjFooBar>>)),
     DocWith(JNull, JArr(<<ObjFooBar>>)),
     DocWith(Num(-1), JNull),
     DocWith(Num(0), Num(5)),
     JObj(<<<<"type", Num(1)>>, <<"extensions", JArr(<<ObjFooBar>>)>>>>),
     JObj(<<<<"title", Num(1)>>, <<"extensions", JArr(<<ObjFooBar>>)>>>>),
     JObj(<<<<"detail", Num(1)>>>>),
     JObj(<<<<"status", Num(1)>>, <<"status", Num(1)>>>>),
     JObj(<<<<"unknown", Num(1)>>, <<"extensions", JArr(<<ObjFooBar>>)>>>>)}

Inputs == {DocWith(Num(400), JArr(a)) : a \in ExtArrays} \cup StructuralDocs

\* Receivers: a zero Response and one that already holds content.
Populated ==
    Response(<<"o">>, <<"o">>, 7, <<"o">>, <<"o">>,
             <<GoMap(FALSE, [n \in {"foo"} |-> GoString(<<"o">>)])>>)

Receivers == {ZeroResponse, Populated}

FooMap == GoMap(FALSE, [n \in {"foo"} |-> GoString(<<"o">>)])

\* The extensions handed to AddExtension.
AddedExts == {FooMap}

-----------------------------------------------------------------------------
\* The program: registrations, logger settings, added extensions, decodes and
\* encodes.

\* No goroutine has been started.
NoGoroutines == [dec |-> <<>>, registrar |-> [pc |-> "idle"], race |-> FALSE, late |-> 0]

\* A response writer nothing has been written to, the test's recorder
\* (httptest.NewRecorder()).  header is the Content-Type of the header map,
\* code and sent the status code and the Content-Type of the response once
\* its status line has been written, info the informational (1xx) responses
\* sent before it, calls the methods called on the writer and asked the codes
\* passed to WriteHeader.
NoWriter ==
    [kind |-> "recorder", pc |-> "idle", header |-> "", sent |-> "", code |-> 200,
     wroteHeader |-> FALSE, info |-> <<>>, body |-> [k |-> "none"],
     calls |-> <<>>, asked |-> <<>>]

\* The writer net/http's server hands to a handler (http.HandleFunc), for a
\* request other than HEAD.
ServerWriter == [NoWriter EXCEPT !.kind = "server", !.code = 0]

\* The receiver is a Response as declared (var r Response); it comes to hold
\* extensions through AddExtension.
Init ==
    /\ registeredExtensions = <<>>
    /\ logger = FALSE
    /\ regHistory = <<>>
    /\ data \in Inputs
    /\ r = ZeroResponse
    /\ res = [op |-> "none"]
    /\ encoded = [k |-> "none"]
    /\ original = ZeroResponse
    /\ conc = NoGoroutines
    /\ reencoded = [k |-> "none"]
    /\ rw = NoWriter

\* Registration follows the documented discipline: every prototype is
\* registered before the decode begins.
RegisterExtension(ext) ==
    /\ Len(regHistory) < MaxReg
    /\ res.op = "none"
    /\ registeredExtensions' = RegistryAppend(registeredExtensions, ext)
    /\ regHistory' = Append(regHistory, ext)
    /\ UNCHANGED <<logger, data, r, res, encoded, original, conc, reencoded, rw>>

\* r.AddExtension(ext) on the receiver.  After the decode of the run, r is no
\* longer the document the decode left, which res records.
AddToReceiver(ext) ==
    /\ Len(r.Extensions) < MaxAdd
    /\ r' = AddExtension(r, ext)
    /\ res' = IF res.op = "decode" THEN [res EXCEPT !.op = "added"] ELSE res
    /\ UNCHANGED <<registeredExtensions, logger, regHistory, data, encoded, original, conc, reencoded, rw>>

\* original.AddExtension(ext) on a document that has been neither encoded nor
\* written yet.
AddToOriginal(ext) ==
    /\ encoded.k = "none"
    /\ rw.pc = "idle"
    /\ Len(original.Extensions) < MaxAdd
    /\ original' = AddExtension(original, ext)
    /\ UNCHANGED <<registeredExtensions, logger, regHistory, data, r, res, encoded, conc, reencoded, rw>>

SetLogger(l) ==
    /\ logger' = l
    /\ UNCHANGED <<registeredExtensions, regHistory, data, r, res, encoded, original, conc, reencoded, rw>>

\* The call with its outcome u, recorded.
Completed(u) ==
    /\ r' = u.r
    /\ res' = [op |-> "decode", out |-> u.out, logs |-> u.logs,
               trials |-> u.trials, prior |-> r, data |-> data,
               reg |-> registeredExtensions, lg |-> logger]

Decode ==
    /\ res.op = "none"
    /\ Completed(UnmarshalJSON(r, data, registeredExtensions, logger))
    /\ UNCHANGED <<registeredExtensions, logger, regHistory, data, encoded, original, conc, reencoded, rw>>

Encode ==
    /\ encoded' = Marshal(r)
    /\ UNCHANGED <<registeredExtensions, logger, regHistory, data, r, res, original, conc, reencoded, rw>>

Next ==
    \/ \E ext \in Protos : RegisterExtension(ext)
    \/ \E ext \in AddedExts : AddToReceiver(ext)
    \/ \E l \in BOOLEAN : SetLogger(l)
    \/ Decode
    \/ Encode

Spec == Init /\ [][Next]_vars

-----------------------------------------------------------------------------
\* Round trips (FuzzResponseRoundtrip): a Response without extensions is
\* marshalled and the bytes are unmarshalled into a fresh Response.

RoundtripStrings ==
    {<<>>, <<"a">>, <<"<">>, <<"\"">>, <<"FFFD">>, <<"BAD">>, <<"a", "BAD">>,
     <<"&", "<", ">">>, <<"E", "\n", "w">>, <<"\t", "\\", "n">>,
     <<"U+0008", "\f", "\r">>, <<"U+0001", "/">>, <<"U+2028", "U+2029">>}

RoundtripStatuses == {-12, -1, 0, 7, 404}

RoundtripDocs ==
    {Response(ty, ti, st, de, in, <<>>) :
        ty \in {<<>>, <<"a">>, <<"BAD">>}, ti \in RoundtripStrings,
        st \in RoundtripStatuses, de \in RoundtripStrings,
        in \in {<<>>, <<"<">>, <<"a", "BAD">>}}

InitRoundtrip ==
    /\ registeredExtensions = <<>>
    /\ logger \in BOOLEAN
    /\ regHistory = <<>>
    /\ data = [k |-> "none"]
    /\ r = ZeroResponse
    /\ res = [op |-> "none"]
    /\ encoded = [k |-> "none"]
    /\ original \in RoundtripDocs
    /\ conc = NoGoroutines
    /\ reencoded = [k |-> "none"]
    /\ rw = NoWriter

\* data, err := json.Marshal(original)
RoundtripMarshal ==
    /\ encoded.k = "none"
    /\ encoded' = Marshal(original)
    /\ UNCHANGED <<registeredExtensions, logger, regHistory, data, r, res, original, conc, reencoded, rw>>

\* json.Unmarshal(data, &decoded)
RoundtripUnmarshal ==
    /\ encoded.k # "none"
    /\ res.op = "none"
    /\ data' = encoded
    /\ r' = UnmarshalJSON(r, encoded, registeredExtensions, logger).r
    /\ res' = [op |-> "decode",
               out |-> UnmarshalJSON(r, encoded, registeredExtensions, logger).out,
               prior |-> r, data |-> encoded, reg |-> registeredExtensions,
               lg |-> logger]
    /\ UNCHANGED <<registeredExtensions, logger, regHistory, encoded, original, conc, reencoded, rw>>

NextRoundtrip == RoundtripMarshal \/ RoundtripUnmarshal

SpecRoundtrip == InitRoundtrip /\ [][NextRoundtrip]_vars

-----------------------------------------------------------------------------
\* Concurrent use: goroutines that each decode a document of their own, and a
\* goroutine that calls RegisterExtension, with no synchronisation between
\* them.  One step of a decoder is one call of unmarshalExtension, which reads
\* registeredExtensions once, at the head of its loop; RegisterExtension reads
\* the slice, appends, and writes it back.

Decoders == {1, 2}

ConcRegistries == {<<>>, <<CodeMessage>>, <<TInt, CodeMessage>>}

ConcArrays ==
    {<<ObjCodeMessage>>, <<JNull, ObjCodeString>>, <<ObjCodeMessage, JNull>>,
     <<Num(5), ObjFooBar>>}

\* The prototypes registered while decodes are under way.
LateProtos == {CodeOnly, TInt}

NewDecoder(raws) ==
    [pc |-> "ready", raws |-> raws, i |-> 1, exts |-> <<>>, logs |-> <<>>,
     start |-> <<>>, raced |-> FALSE, inter |-> FALSE]

InitConcurrent ==
    /\ registeredExtensions \in ConcRegistries
    /\ regHistory = registeredExtensions
    /\ logger = TRUE
    /\ data = [k |-> "none"]
    /\ r = ZeroResponse
    /\ res = [op |-> "none"]
    /\ encoded = [k |-> "none"]
    /\ original = ZeroResponse
    /\ \E a \in [Decoders -> ConcArrays] :
          conc = [dec |-> [d \in Decoders |-> NewDecoder(a[d])],
                  registrar |-> [pc |-> "idle"], race |-> FALSE, late |-> 0]
    /\ reencoded = [k |-> "none"]
    /\ rw = NoWriter

\* Variant of RegistryAfterTrial in which the loop moves the prototype that
\* parsed raw to the front of the registry.
RegistryAfterTrial_MoveToFront(reg, raw) ==
    IF \E j \in DOMAIN reg : Unmarshal(raw, ValueType(reg[j])).ok
    THEN LET j == CHOOSE j \in DOMAIN reg :
                    /\ Unmarshal(raw, ValueType(reg[j])).ok
                    /\ \A h \in 1..(j - 1) : ~Unmarshal(raw, ValueType(reg[h])).ok
         IN  <<reg[j]>> \o SelectSeq(reg, LAMBDA p : p # reg[j])
    ELSE reg

\* The registry after unmarshalExtension's loop over it: the loop only reads.
RegistryAfterTrial(reg, raw) == reg

\* A goroutine calls UnmarshalJSON: the alias is parsed, the loop begins.
ConcStart(d) ==
    /\ conc.dec[d].pc = "ready"
    /\ conc' = [conc EXCEPT !.dec[d].pc = "loop", !.dec[d].start = registeredExtensions]
    /\ UNCHANGED <<registeredExtensions, logger, regHistory, data, r, res, encoded, original, reencoded, rw>>

\* The decoder is between two elements of its array.
MidLoop(dc) == dc.pc = "loop" /\ 1 < dc.i /\ dc.i <= Len(dc.raws)

\* The decoder's state after resolving its next element to u; racy: a
\* RegisterExtension was writing the registry; inter: another decode was
\* between two of its elements.
Resolving(dc, u, racy, inter) ==
    [dc EXCEPT !.i = @ + 1,
               !.exts = AppendResolved(@, u),
               !.logs = @ \o u.logs \o
                        (IF u.err THEN <<[msg |-> FailedMsg, index |-> dc.i - 1]>>
                         ELSE <<>>),
               !.raced = @ \/ racy,
               !.inter = @ \/ inter]

\* What a read of registeredExtensions can return: its value, or, while a
\* RegisterExtension is writing it, also the value being written.
Views ==
    IF conc.registrar.pc = "writing"
    THEN {registeredExtensions, conc.registrar.pend}
    ELSE {registeredExtensions}

\* One pass of the loop of UnmarshalJSON: unmarshalExtension on the next element.
ConcResolve(d) ==
    /\ conc.dec[d].pc = "loop"
    /\ conc.dec[d].i <= Len(conc.dec[d].raws)
    /\ \E view \in Views :
          conc' = [conc EXCEPT
                     !.dec[d] = Resolving(@,
                                    unmarshalExtension(@.raws[@.i], @.i - 1, view, logger),
                                    conc.registrar.pc = "writing",
                                    \E e \in Decoders \ {d} : MidLoop(conc.dec[e])),
                     !.race = @ \/ conc.registrar.pc = "writing"]
    /\ registeredExtensions' =
          RegistryAfterTrial(registeredExtensions, conc.dec[d].raws[conc.dec[d].i])
    /\ UNCHANGED <<logger, regHistory, data, r, res, encoded, original, reencoded, rw>>

\* A read of the slice header torn by the concurrent write: the loop runs
\* over memory that holds no prototype, and the goroutine faults.
ConcTornRead(d) ==
    /\ conc.dec[d].pc = "loop"
    /\ conc.dec[d].i <= Len(conc.dec[d].raws)
    /\ conc.registrar.pc = "writing"
    /\ conc' = [conc EXCEPT !.dec[d].pc = "fault", !.dec[d].raced = TRUE, !.race = TRUE]
    /\ UNCHANGED <<registeredExtensions, logger, regHistory, data, r, res, encoded, original, reencoded, rw>>

\* UnmarshalJSON returns nil.
ConcFinish(d) ==
    /\ conc.dec[d].pc = "loop"
    /\ conc.dec[d].i > Len(conc.dec[d].raws)
    /\ conc' = [conc EXCEPT !.dec[d].pc = "done"]
    /\ UNCHANGED <<registeredExtensions, logger, regHistory, data, r, res, encoded, original, reencoded, rw>>

\* RegisterExtension reads the slice and appends to it.
ConcRegisterBegin(ext) ==
    /\ conc.registrar.pc = "idle"
    /\ Len(registeredExtensions) < MaxReg
    /\ conc' = [conc EXCEPT
                  !.registrar = [pc |-> "writing",
                                 pend |-> RegistryAppend(registeredExtensions, ext)],
                  !.late = @ + 1]
    /\ regHistory' = Append(regHistory, ext)
    /\ UNCHANGED <<registeredExtensions, logger, data, r, res, encoded, original, reencoded, rw>>

InFlight(dc) == dc.pc = "loop"

\* RegisterExtension writes the slice back; every decode under way has then
\* run concurrently with the write.
ConcRegisterWrite ==
    /\ conc.registrar.pc = "writing"
    /\ registeredExtensions' = conc.registrar.pend
    /\ conc' = [conc EXCEPT
                  !.registrar = [pc |-> "idle"],
                  !.dec = [d \in Decoders |->
                              [conc.dec[d] EXCEPT !.raced = @ \/ InFlight(conc.dec[d])]],
                  !.race = @ \/ \E d \in Decoders : InFlight(conc.dec[d])]
    /\ UNCHANGED <<logger, regHistory, data, r, res, encoded, original, reencoded, rw>>

NextConcurrent ==
    \/ \E d \in Decoders : ConcStart(d)
    \/ \E d \in Decoders : ConcResolve(d)
    \/ \E d \in Decoders : ConcTornRead(d)
    \/ \E d \in Decoders : ConcFinish(d)
    \/ \E ext \in LateProtos : ConcRegisterBegin(ext)
    \/ ConcRegisterWrite

SpecConcurrent == InitConcurrent /\ [][NextConcurrent]_vars

-----------------------------------------------------------------------------
\* Encoding, decoding what was encoded, and encoding again (the sequence of
\* TestRFC9457Error_MarshalJSON followed by a decode and a second Marshal).

FiveX ==
    GoStruct("CodeMessage",
             [n \in {"code", "message"} |-> IF n = "code" THEN GoInt(5) ELSE GoString(<<"x">>)])

\* Extension lists of the documents to encode.
EncodeExts == {<<>>, <<FooMap>>, <<FiveX, GoNil>>}

EncodeDocs ==
    {Response(ty, ti, st, de, in, ex) :
        ty \in {<<>>, <<"a">>}, ti \in {<<>>, <<"<">>, <<"BAD">>, <<"\n", "&", "\\">>},
        st \in {-1, 0, 404}, de \in {<<>>, <<"a">>}, in \in {<<>>, <<"a">>},
        ex \in EncodeExts}

InitEncode ==
    /\ registeredExtensions \in {<<>>, <<CodeMessage>>}
    /\ regHistory = registeredExtensions
    /\ logger = TRUE
    /\ data = [k |-> "none"]
    /\ r = ZeroResponse
    /\ res = [op |-> "none"]
    /\ encoded = [k |-> "none"]
    /\ original \in EncodeDocs
    /\ conc = NoGoroutines
    /\ reencoded = [k |-> "none"]
    /\ rw = NoWriter

\* json.Marshal(original)
EncodeMarshal ==
    /\ encoded.k = "none"
    /\ encoded' = Marshal(original)
    /\ UNCHANGED <<registeredExtensions, logger, regHistory, data, r, res, original, conc, reencoded, rw>>

\* The decode of bytes d with its outcome u, recorded.
CompletedOn(d, u) ==
    /\ data' = d
    /\ r' = u.r
    /\ res' = [op |-> "decode", out |-> u.out, logs |-> u.logs,
               trials |-> u.trials, prior |-> r, data |-> d,
               reg |-> registeredExtensions, lg |-> logger]

\* json.Unmarshal(encoded, &r)
EncodeUnmarshal ==
    /\ encoded.k # "none"
    /\ res.op = "none"
    /\ CompletedOn(encoded, UnmarshalJSON(r, encoded, registeredExtensions, logger))
    /\ UNCHANGED <<registeredExtensions, logger, regHistory, encoded, original, conc, reencoded, rw>>

\* json.Marshal(&r) of the decoded Response
EncodeRemarshal ==
    /\ res.op = "decode"
    /\ res.out = "ok"
    /\ reencoded.k = "none"
    /\ reencoded' = Marshal(r)
    /\ UNCHANGED <<registeredExtensions, logger, regHistory, data, r, res, encoded, original, conc, rw>>

NextEncode ==
    \/ \E ext \in AddedExts : AddToOriginal(ext)
    \/ EncodeMarshal
    \/ EncodeUnmarshal
    \/ EncodeRemarshal

SpecEncode == InitEncode /\ [][NextEncode]_vars

-----------------------------------------------------------------------------
\* Response.Write on a response writer, and a decode of the body written
\* (TestRFC9457Error_Write).  Write takes any http.ResponseWriter; the two
\* writers here are the recorder of the test and the writer of net/http's
\* server, which the example program uses.

ProblemJSON == "application/problem+json"

\* (r *Response).HTTPStatusCode()
HTTPStatusCode(rcv) == rcv.Status

\* w.Header().Set("Content-Type", v)
HeaderSet(wr, v) == [wr EXCEPT !.header = v, !.calls = Append(@, "Header.Set")]

\* net/http's check of the code passed to WriteHeader, which both writers
\* make (checkWriteHeaderCode).
ValidCode(code) == code >= 100 /\ code <= 999

\* A 1xx code other than 101 Switching Protocols: the server sends it as an
\* informational response and goes on waiting for the final status.
Informational(code) == code >= 100 /\ code <= 199 /\ code # 101

\* The server refuses a body under a 1xx, 204 or 304 status.
BodyAllowed(code) == ~(code >= 100 /\ code <= 199) /\ code \notin {204, 304}

\* What the writer does with a status code: nothing once the status line is
\* written; a panic on a code outside 100..999; on the server an
\* informational response for an informational code; otherwise the status
\* line, with the headers set so far.
SendHeader(wr, code) ==
    IF wr.wroteHeader THEN wr
    ELSE IF ~ValidCode(code) THEN [wr EXCEPT !.pc = "panic"]
    ELSE IF wr.kind = "server" /\ Informational(code)
    THEN [wr EXCEPT !.info = Append(@, [code |-> code, type |-> wr.header])]
    ELSE [wr EXCEPT !.code = code, !.sent = wr.header, !.wroteHeader = TRUE]

\* w.WriteHeader(code)
WriteHeader(wr, code) ==
    SendHeader([wr EXCEPT !.calls = Append(@, "WriteHeader"), !.asked = Append(@, code)],
               code)

\* The writer takes the bytes: the recorder always, the server unless the
\* status allows no body, in which case Write returns ErrBodyNotAllowed.
TakeBody(wr, body) ==
    IF wr.kind = "server" /\ ~BodyAllowed(wr.code)
    THEN [wr EXCEPT !.pc = "error"]
    ELSE [wr EXCEPT !.body = body, !.pc = "done"]

\* w.Write(body): a status line not yet written is written first, with code
\* 200.
WriteBody(wr, body) ==
    TakeBody(SendHeader([wr EXCEPT !.calls = Append(@, "Write")], 200), body)

\* json.NewEncoder(w).Encode(rcv): nothing runs after a panic; the encoding
\* is handed to w.Write, whose error Encode returns.
EncodeTo(wr, rcv) ==
    IF wr.pc = "panic" THEN wr ELSE WriteBody(wr, Marshal(rcv))

\* Variant of Write that encodes the body before it sets the header and the
\* status code.
Write_BodyFirst(rcv, wr) ==
    WriteHeader(HeaderSet(EncodeTo(wr, rcv), ProblemJSON), HTTPStatusCode(rcv))

\* (r *Response).Write(w)
Write(rcv, wr) ==
    EncodeTo(WriteHeader(HeaderSet(wr, ProblemJSON), HTTPStatusCode(rcv)), rcv)

WriteStatuses == {-1, 0, 100, 101, 204, 422, 1000}

Writers == {NoWriter, ServerWriter}

WriteDocs ==
    {Response(ty, ti, st, de, in, ex) :
        ty \in {<<>>, <<"a">>}, ti \in {<<"<">>, <<"BAD">>, <<"\t", ">", "U+2028">>},
        st \in WriteStatuses, de \in {<<>>, <<"a">>}, in \in {<<>>, <<"a">>},
        ex \in EncodeExts}

InitWrite ==
    /\ registeredExtensions \in {<<>>, <<CodeMessage>>}
    /\ regHistory = registeredExtensions
    /\ logger \in BOOLEAN
    /\ data = [k |-> "none"]
    /\ r = ZeroResponse
    /\ res = [op |-> "none"]
    /\ encoded = [k |-> "none"]
    /\ original \in WriteDocs
    /\ conc = NoGoroutines
    /\ reencoded = [k |-> "none"]
    /\ rw \in Writers

\* original.Write(rw)
WriteResponse ==
    /\ rw.pc = "idle"
    /\ rw' = Write(original, rw)
    /\ UNCHANGED <<registeredExtensions, logger, regHistory, data, r, res, encoded, original, conc, reencoded>>

\* json.Unmarshal(recorder.Body.Bytes(), &r)
ReadBack ==
    /\ rw.pc = "done"
    /\ res.op = "none"
    /\ CompletedOn(rw.body, UnmarshalJSON(r, rw.body, registeredExtensions, logger))
    /\ UNCHANGED <<registeredExtensions, logger, regHistory, encoded, original, conc, reencoded, rw>>

NextWrite ==
    \/ \E ext \in AddedExts : AddToOriginal(ext)
    \/ WriteResponse
    \/ ReadBack

SpecWrite == InitWrite /\ [][NextWrite]_vars

-----------------------------------------------------------------------------
\* Registrations and added extensions around one decode, the logger set or
\* not beforehand and left alone afterwards; the receiver is a zero Response
\* or one that already holds content.

InitDecode ==
    /\ registeredExtensions = <<>>
    /\ logger \in BOOLEAN
    /\ regHistory = <<>>
    /\ data \in Inputs
    /\ r \in Receivers
    /\ res = [op |-> "none"]
    /\ encoded = [k |-> "none"]
    /\ original = ZeroResponse
    /\ conc = NoGoroutines
    /\ reencoded = [k |-> "none"]
    /\ rw = NoWriter

NextDecode ==
    \/ \E ext \in Protos : RegisterExtension(ext)
    \/ \E ext \in AddedExts : AddToReceiver(ext)
    \/ Decode

SpecDecode == InitDecode /\ [][NextDecode]_vars

-----------------------------------------------------------------------------
\* Registration of any Extension value, the untyped nil included, followed by
\* a decode with a logger set.

AnyProtos == Protos \cup {NilProto}

InitAnyProto ==
    /\ registeredExtensions = <<>>
    /\ logger = TRUE
    /\ regHistory = <<>>
    /\ data \in Inputs
    /\ r = ZeroResponse
    /\ res = [op |-> "none"]
    /\ encoded = [k |-> "none"]
    /\ original = ZeroResponse
    /\ conc = NoGoroutines
    /\ reencoded = [k |-> "none"]
    /\ rw = NoWriter

NextAnyProto ==
    \/ \E ext \in AnyProtos : RegisterExtension(ext)
    \/ \E ext \in AddedExts : AddToReceiver(ext)
    \/ Decode

SpecAnyProto == InitAnyProto /\ [][NextAnyProto]_vars

-----------------------------------------------------------------------------
\* Vocabulary of the properties.

Decoded == res.op = "decode"

\* The extension elements of the decoded input, when its alias parses.
Raws == ParseAlias(res.data).temp.extensions

\* The alias of the input parses: the fixed fields have their JSON types and
\* the extensions member, when present, is an array or null.
AliasParses == ParseAlias(res.data).ok

\* Prototype p parses raw without error.
Accepts(p, raw) == Unmarshal(raw, ValueType(p)).ok

AcceptedBySome(reg, raw) == \E j \in DOMAIN reg : Accepts(reg[j], raw)

\* raw is neither accepted by a prototype nor parseable as a mapping.
Unresolvable(reg, raw) == ~AcceptedBySome(reg, raw) /\ raw.k \notin {"obj", "null"}

\* Log records about the element at 0-based position n.
LogsAbout(logs, n) == SelectSeq(logs, LAMBDA e : e.index = n)

-----------------------------------------------------------------------------
\* Elements raws resolved under registry reg into exts: each resolved element
\* has the value given by the earliest prototype that accepts it.
EarliestDecides(raws, reg, exts) ==
    \A i \in DOMAIN raws \cap DOMAIN exts :
        \A j \in DOMAIN reg :
            (/\ Accepts(reg[j], raws[i])
             /\ \A h \in 1..(j - 1) : ~Accepts(reg[h], raws[i]))
            => exts[i] = Unmarshal(raws[i], ValueType(reg[j])).v

\* C1: every resolved element has the value that the earliest-registered
\* prototype accepting it gives it; a later accepting prototype never decides.
C1_FirstMatchWins ==
    (Decoded /\ res.out \in {"ok", "panic"}) => EarliestDecides(Raws, res.reg, r.Extensions)

ResolvedToFirstOfTwo(raws, reg, exts) ==
    \E i \in DOMAIN raws :
        /\ raws[i].k = "obj"
        /\ Accepts(reg[1], raws[i]) /\ Accepts(reg[2], raws[i])
        /\ exts[i].g = "struct"
        /\ exts[i].name = ValueType(reg[1]).name

\* Two prototypes of different shapes both accept an object element, and it
\* has been resolved to the shape of the first.
C1_Witness ==
    /\ Decoded /\ res.out = "ok" /\ Len(res.reg) = 2
    /\ ValueType(res.reg[1]) # ValueType(res.reg[2])
    /\ ResolvedToFirstOfTwo(Raws, res.reg, r.Extensions)

\* C2: with the one shape {code int, message string} registered and a logger
\* set, [{"code":5,"message":"x"},{"foo":"bar"}] decodes to the typed value
\* code=5, message="x" followed by the mapping {"foo":"bar"}, with exactly one
\* notice logged, for the second element.
C2_Scenario ==
    (/\ Decoded /\ res.lg = TRUE /\ res.reg = <<CodeMessage>>
     /\ res.data = DocWith(Num(400), JArr(<<ObjCodeMessage, ObjFooBar>>)))
    => /\ res.out = "ok"
       /\ r.Extensions =
            <<GoStruct("CodeMessage",
                       [n \in {"code", "message"} |->
                           IF n = "code" THEN GoInt(5) ELSE GoString(<<"x">>)]),
              GoMap(FALSE, [n \in {"foo"} |-> GoString(<<"b", "a", "r">>)])>>
       /\ Len(res.logs) = 1
       /\ res.logs[1].index = 1

\* exts holds exactly the resolved values of kept, in order.
HoldsExactly(kept, reg, exts) ==
    /\ Len(exts) = Len(kept)
    /\ \A i \in DOMAIN kept : exts[i] = unmarshalExtension(kept[i], i - 1, reg, TRUE).ext

\* C3: an element that no prototype accepts and that is no mapping is skipped:
\* the decoded list holds exactly the other elements, in order.
C3_FailedElementSkipped ==
    (Decoded /\ res.out = "ok") =>
        HoldsExactly(SelectSeq(Raws, LAMBDA e : ~Unresolvable(res.reg, e)),
                     res.reg, r.Extensions)

\* ext is a mapping with the key-value pairs of object raw.
MappingOf(raw, ext) ==
    /\ ext.g = "map"
    /\ ~ext.isnil
    /\ DOMAIN ext.m = {raw.m[n][1] : n \in DOMAIN raw.m}
    /\ \A n \in DOMAIN raw.m : ext.m[raw.m[n][1]] = UnmarshalAny(raw.m[n][2])

FallbackLogged(raws, reg, exts, logs) ==
    \A i \in DOMAIN raws :
        IF AcceptedBySome(reg, raws[i])
        THEN LogsAbout(logs, i - 1) = <<>>
        ELSE raws[i].k = "obj" =>
               /\ i \in DOMAIN exts
               /\ MappingOf(raws[i], exts[i])
               /\ LogsAbout(logs, i - 1) = <<[msg |-> NoMatchMsg, index |-> i - 1]>>

\* C4: with a logger set, an object element that no prototype accepts becomes
\* a mapping with the object's own key-value pairs and is logged exactly once;
\* an element accepted by a prototype is not logged.
C4_Fallback ==
    (Decoded /\ res.lg = TRUE /\ AliasParses) =>
        (res.out = "ok" /\ FallbackLogged(Raws, res.reg, r.Extensions, res.logs))

FellBack(raws, reg, exts, logs) ==
    \E i \in DOMAIN raws :
        /\ raws[i].k = "obj" /\ ~AcceptedBySome(reg, raws[i])
        /\ exts[i].g = "map"
        /\ Len(LogsAbout(logs, i - 1)) = 1

\* An object rejected by every prototype of a non-empty registry has been
\* resolved to a mapping.
C4_Witness ==
    /\ Decoded /\ res.lg = TRUE /\ res.out = "ok" /\ res.reg # <<>>
    /\ FellBack(Raws, res.reg, r.Extensions, res.logs)

\* raws with element i removed.
Without(raws, i) == [n \in 1..(Len(raws) - 1) |-> IF n < i THEN raws[n] ELSE raws[n + 1]]

\* Every element of raws other than i has in exts the value it has in alone,
\* the extensions decoded from the input without element i.
SameAsAlone(raws, i, exts, alone) ==
    \A n \in DOMAIN raws \ {i} :
        /\ n \in DOMAIN exts
        /\ (IF n < i THEN n ELSE n - 1) \in DOMAIN alone
        /\ exts[n] = alone[IF n < i THEN n ELSE n - 1]

SiblingsUnaffected(raws, reg, lg, exts) ==
    \A i \in DOMAIN raws :
        Unresolvable(reg, raws[i]) =>
            SameAsAlone(raws, i, exts,
                UnmarshalJSON(ZeroResponse, DocWith(Num(400), JArr(Without(raws, i))),
                              reg, lg).r.Extensions)

\* C5 as stated: whenever the fixed fields parse, the decode returns no error
\* however many elements fail, and the siblings of a failing element resolve
\* as they do without it.
C5_Original ==
    (Decoded /\ AliasParses) =>
        (res.out = "ok" /\ SiblingsUnaffected(Raws, res.reg, res.lg, r.Extensions))

\* C5, amended: with a logger set, whenever the alias parses, the decode
\* returns no error however many elements fail, and the siblings of a failing
\* element resolve as they do without it.
C5_FailuresIsolated ==
    (Decoded /\ res.lg = TRUE /\ AliasParses) =>
        (res.out = "ok" /\ SiblingsUnaffected(Raws, res.reg, res.lg, r.Extensions))

FailedBetweenSiblings(raws, reg, exts) ==
    /\ Len(raws) = 3
    /\ Unresolvable(reg, raws[2])
    /\ ~Unresolvable(reg, raws[1]) /\ ~Unresolvable(reg, raws[3])
    /\ exts[1] # GoNil /\ exts[3] # GoNil

\* A failing element sits between two siblings that have resolved.
C5_Witness ==
    /\ Decoded /\ res.lg = TRUE /\ res.out = "ok"
    /\ FailedBetweenSiblings(Raws, res.reg, r.Extensions)

\* The JSON kind a fixed field must have.
FieldKind(n) == IF n = "status" THEN "num" ELSE "str"

FixedFields == {"type", "title", "status", "detail", "instance"}

\* A fixed field of object d holds a value that is neither of the field's
\* JSON kind nor null.
WrongType(d) ==
    /\ d.k = "obj" /\ ~HasDuplicateNames(d.m)
    /\ \E n \in FixedFields :
          /\ HasMember(d.m, n)
          /\ Member(d.m, n).k \notin {FieldKind(n), "null"}

\* No prototype was tried and nothing was logged.
NoElementResolved == res.trials = 0 /\ res.logs = <<>>

\* C6 as stated: an input that is not a JSON object, or a fixed field of the
\* wrong JSON type, makes the decode return an error with no element resolved.
C6_Original ==
    (Decoded /\ (res.data.k # "obj" \/ WrongType(res.data)))
    => (res.out = "err" /\ NoElementResolved)

\* C6, amended: an input that is neither a JSON object nor null, or a fixed
\* field whose value is neither of its JSON type nor null, makes the decode
\* return an error with no element resolved, no prototype tried and nothing
\* logged.
C6_StructuralError ==
    (Decoded /\ (res.data.k \notin {"obj", "null"} \/ WrongType(res.data)))
    => (res.out = "err" /\ NoElementResolved)

StringStatusWithExtensions(d) ==
    /\ WrongType(d)
    /\ HasMember(d.m, "status") /\ Member(d.m, "status").k = "str"
    /\ HasMember(d.m, "extensions")
    /\ Member(d.m, "extensions").k = "arr"
    /\ Member(d.m, "extensions").a # <<>>

\* A document with a string status and an extension element has been refused
\* under a non-empty registry.
C6_Witness ==
    /\ Decoded /\ res.out = "err" /\ res.reg # <<>>
    /\ StringStatusWithExtensions(res.data)

SomeUnaccepted(reg, raws) == \E i \in DOMAIN raws : ~AcceptedBySome(reg, raws[i])

\* C7: without a logger, a decode panics exactly when its alias parses and
\* some extension element is accepted by no registered prototype.
C7_FailFast ==
    (Decoded /\ res.lg = FALSE) =>
        (res.out = "panic" <=> (AliasParses /\ SomeUnaccepted(res.reg, Raws)))

PanickedAtSecond(raws, reg, exts) ==
    /\ Len(raws) >= 2
    /\ AcceptedBySome(reg, raws[1])
    /\ Unresolvable(reg, raws[2])
    /\ Len(exts) = 1

\* Without a logger, a decode has panicked on an element that is no mapping
\* after resolving an element that a prototype accepts.
C7_Witness ==
    /\ Decoded /\ res.lg = FALSE /\ res.out = "panic"
    /\ PanickedAtSecond(Raws, res.reg, r.Extensions)

\* C8: the registry starts empty, always equals the prototypes registered so
\* far in call order with duplicates kept, never gets shorter, and is left
\* unchanged by every decode and encode.
C8_RegistryLifecycle ==
    /\ registeredExtensions = <<>>
    /\ [](registeredExtensions = regHistory)
    /\ [][/\ Len(registeredExtensions') >= Len(registeredExtensions)
          /\ (res' # res \/ encoded' # encoded)
               => registeredExtensions' = registeredExtensions]_vars

\* The same prototype has been registered twice and a decode and an encode
\* have run.
C8_Witness ==
    /\ Len(registeredExtensions) = 2
    /\ registeredExtensions[1] = registeredExtensions[2]
    /\ Decoded /\ encoded.k = "obj"

-----------------------------------------------------------------------------
\* What UnmarshalJSON returns for the decoder's document when it runs alone
\* under the registry the decoder started with.
Alone(dc) ==
    UnmarshalJSON(ZeroResponse, DocWith(Num(400), JArr(dc.raws)), dc.start, logger)

SameAsAlone9(dc) ==
    /\ Alone(dc).out = "ok"
    /\ dc.exts = Alone(dc).r.Extensions
    /\ dc.logs = Alone(dc).logs

\* C9: while no RegisterExtension has been called since the goroutines
\* started, no access to the registry conflicts and the registry stays what
\* registration left; every finished decode that no RegisterExtension
\* overlapped has the extensions and log lines it has when run alone.
C9_DecodesIndependent ==
    /\ conc.late = 0 => (~conc.race /\ registeredExtensions = regHistory)
    /\ \A d \in DOMAIN conc.dec :
          (conc.dec[d].pc = "done" /\ ~conc.dec[d].raced) => SameAsAlone9(conc.dec[d])

\* Two decodes have interleaved and one has finished untouched by any
\* registration; a RegisterExtension then ran during the other decode, which
\* finished with extensions it does not have when run alone.
C9_Witness ==
    /\ DOMAIN conc.dec = Decoders
    /\ \E d \in Decoders, e \in Decoders :
          /\ d # e
          /\ conc.dec[d].pc = "done" /\ ~conc.dec[d].raced /\ conc.dec[d].inter
          /\ conc.dec[e].pc = "done" /\ conc.dec[e].raced
          /\ conc.dec[e].exts # Alone(conc.dec[e]).r.Extensions
    /\ conc.race

-----------------------------------------------------------------------------
RoundTripped == res.op = "decode" /\ res.data = Marshal(original)

SameFixedFields(a, b) ==
    /\ a.Type = b.Type /\ a.Title = b.Title /\ a.Status = b.Status
    /\ a.Detail = b.Detail /\ a.Instance = b.Instance

\* Every byte of the string belongs to valid UTF-8.
ValidUTF8(s) == \A i \in DOMAIN s : s[i] # "BAD"

ValidStrings(d) ==
    ValidUTF8(d.Type) /\ ValidUTF8(d.Title) /\ ValidUTF8(d.Detail) /\ ValidUTF8(d.Instance)

\* C10 as stated: for any strings and any status, decoding the encoding of a
\* document without extensions succeeds and gives back its fixed fields.
C10_Original ==
    RoundTripped => (res.out = "ok" /\ SameFixedFields(r, original))

\* C10: decoding the encoding of a document without extensions always
\* succeeds, and gives back the fixed fields when the strings are valid UTF-8.
C10_Roundtrip ==
    RoundTripped =>
        /\ res.out = "ok"
        /\ r.Extensions = <<>>
        /\ ValidStrings(original) => SameFixedFields(r, original)

\* A document with an escaped title, a negative status, an empty detail and
\* an instance has made the round trip.
C10_Witness ==
    /\ RoundTripped /\ res.out = "ok"
    /\ original.Title = <<"<">> /\ original.Status < 0
    /\ original.Detail = <<>> /\ original.Instance = <<"<">>
    /\ SameFixedFields(r, original)

-----------------------------------------------------------------------------
\* The member names of JSON object j, in wire order.
Keys(j) == [i \in DOMAIN j.m |-> j.m[i][1]]

CanonicalOrder == <<"type", "title", "status", "detail", "instance", "extensions">>

\* The key must appear in the encoding of document d.
MustAppear(d, k) ==
    CASE k = "detail" -> d.Detail # <<>>
      [] k = "instance" -> d.Instance # <<>>
      [] k = "extensions" -> Len(d.Extensions) > 0
      [] OTHER -> TRUE

\* j is an object whose keys are exactly those that must appear for d, each
\* once, in the canonical order.
KeyedFor(j, d) ==
    /\ j.k = "obj"
    /\ Keys(j) = SelectSeq(CanonicalOrder, LAMBDA k : MustAppear(d, k))

\* C11: an encoded document always has the keys type, title and status, has
\* detail, instance and extensions exactly when the field is non-empty, and
\* has its keys in the order type, title, status, detail, instance,
\* extensions; this holds of a document just decoded as well.
C11_OmitEmptyStableOrder ==
    /\ encoded.k # "none" => KeyedFor(encoded, original)
    /\ reencoded.k # "none" => KeyedFor(reencoded, r)

\* A document with empty type and title and zero status but a detail and
\* extensions has been encoded to the keys type, title, status, detail,
\* extensions, and the document decoded from it has been encoded again.
C11_Witness ==
    /\ original.Type = <<>> /\ original.Title = <<>> /\ original.Status = 0
    /\ original.Detail # <<>> /\ original.Instance = <<>> /\ original.Extensions # <<>>
    /\ encoded.k = "obj"
    /\ Keys(encoded) = <<"type", "title", "status", "detail", "extensions">>
    /\ reencoded.k = "obj"

-----------------------------------------------------------------------------
\* Only type, title and status of the document are set.
OnlyFixed(d) == d.Detail = <<>> /\ d.Instance = <<>> /\ d.Extensions = <<>>

\* The decoded document has been encoded again.
Reencoded == res.op = "decode" /\ res.data = encoded /\ reencoded.k # "none"

\* C12 as stated: decoding the encoding of any document with only type, title
\* and status set and encoding the result again gives the same bytes.
C12_Original ==
    (Reencoded /\ OnlyFixed(original)) => reencoded = encoded

\* C12, amended: when type and title are valid UTF-8, decoding the encoding
\* of a document with only type, title and status set and encoding the result
\* again gives the same bytes; in every case the decode leaves an empty
\* extension list, which the second encoding omits.
C12_Idempotent ==
    (Reencoded /\ OnlyFixed(original)) =>
        /\ r.Extensions = <<>>
        /\ ~HasMember(reencoded.m, "extensions")
        /\ ValidStrings(original) => reencoded = encoded

\* A document with a title that needs escaping and a negative status, and
\* nothing else set, has been encoded, decoded and encoded to the same bytes.
C12_Witness ==
    /\ Reencoded /\ OnlyFixed(original)
    /\ original.Title = <<"<">> /\ original.Status < 0
    /\ reencoded = encoded
    /\ Keys(reencoded) = <<"type", "title", "status">>

-----------------------------------------------------------------------------
\* The trial parses of a decode are bounded: none when the alias does not
\* parse, at most one per element and prototype otherwise.
TrialsBounded(ok, raws, reg, trials) ==
    IF ok THEN trials <= Len(raws) * Len(reg) ELSE trials = 0

\* C13: with a logger set, a decode of any input ends after a bounded number
\* of trial parses and returns success or an error, never a panic; an encode
\* ends with a JSON object.
C13_NoPanicNoHang ==
    /\ (Decoded /\ res.lg = TRUE) =>
          /\ res.out \in {"ok", "err"}
          /\ TrialsBounded(AliasParses, Raws, res.reg, res.trials)
    /\ encoded.k # "none" => encoded.k = "obj"

\* An element failed to resolve and was logged.
FailureLogged(logs) == \E i \in DOMAIN logs : logs[i].msg = FailedMsg

\* A document without extensions has been encoded; then, with a logger set
\* and a prototype registered, an input holding an element that fails to
\* resolve has been decoded without a panic.
C13_Witness ==
    /\ Decoded /\ res.lg = TRUE /\ res.out = "ok" /\ res.reg # <<>>
    /\ FailureLogged(res.logs)
    /\ res.prior = ZeroResponse /\ encoded = Marshal(ZeroResponse)

-----------------------------------------------------------------------------
\* Write has run on the writer, to its end or to a panic.
Written == rw.pc # "idle"

WriteOrder == <<"Header.Set", "WriteHeader", "Write">>

\* The body has been decoded back.
ReadBackDone == Written /\ res.op = "decode" /\ res.data = rw.body

\* C14 as stated: for any document, Write sets the media type, then writes
\* the document's status as the status code, then the body, and the body
\* decodes back to the document's fixed fields.
C14_Original ==
    /\ Written =>
          /\ rw.sent = ProblemJSON
          /\ rw.code = original.Status /\ rw.code = HTTPStatusCode(original)
          /\ rw.calls = WriteOrder
          /\ rw.body.k = "obj"
    /\ ReadBackDone => (res.out = "ok" /\ SameFixedFields(r, original))

\* The writer takes the code as the status of the response and accepts a
\* body under it: the recorder for every code in 100..999, the server for
\* every such code that is not 1xx, 204 or 304.
TakesAsStatus(wr, code) ==
    ValidCode(code) /\ (wr.kind = "server" => code >= 200 /\ BodyAllowed(code))

\* Write has set the media type and then passed the status to WriteHeader,
\* and nothing went to the body before.
HeaderThenStatus(wr, d) ==
    /\ wr.header = ProblemJSON
    /\ Len(wr.calls) >= 2
    /\ SubSeq(wr.calls, 1, 2) = <<"Header.Set", "WriteHeader">>
    /\ wr.asked = <<d.Status>> /\ wr.asked = <<HTTPStatusCode(d)>>
    /\ wr.body.k # "none" => (wr.calls = WriteOrder /\ wr.body = Marshal(d))

\* The decode of the body can resolve every element: a logger is set, or
\* each extension element is accepted by a registered prototype.
CanResolveAll == res.lg = TRUE \/ ~SomeUnaccepted(res.reg, Raws)

\* C14, amended: Write sets the media type on the writer and then passes the
\* document's status, unchanged, to the writer's WriteHeader, both before it
\* encodes the body to the writer; on a writer that takes the code as the
\* status of the response and accepts a body, the response carries the media
\* type, that code and the body; a body written decodes back without error
\* when a logger is set or every extension is accepted by a prototype, to
\* the document's fixed fields when its strings are valid UTF-8.
C14_TransportWrite ==
    /\ Written => HeaderThenStatus(rw, original)
    /\ (Written /\ TakesAsStatus(rw, original.Status)) =>
          /\ rw.pc = "done"
          /\ rw.sent = ProblemJSON
          /\ rw.code = original.Status
          /\ rw.body.k = "obj"
    /\ (ReadBackDone /\ CanResolveAll) =>
          /\ res.out = "ok"
          /\ ValidStrings(original) => SameFixedFields(r, original)

\* A document with status 422, a detail and an extension has been written to
\* the server's writer and its body decoded back, with a logger set, to the
\* same fixed fields.
C14_Witness ==
    /\ ReadBackDone /\ res.out = "ok" /\ res.lg = TRUE /\ rw.kind = "server"
    /\ original.Status = 422 /\ original.Detail # <<>> /\ original.Extensions # <<>>
    /\ rw.code = 422 /\ rw.sent = ProblemJSON /\ rw.calls = WriteOrder
    /\ SameFixedFields(r, original)

-----------------------------------------------------------------------------
\* C15: after a successful decode the extension sequence has one entry per
\* element of the input array, and the entry at each position is what the
\* element at that position resolves to: entries keep the order of their
\* elements, no element gives two entries, and no entry comes from anything
\* else (the receiver's earlier extensions included).
C15_OrderPreserved ==
    (Decoded /\ res.out = "ok") => HoldsExactly(Raws, res.reg, r.Extensions)

\* Three elements that resolve to three different values have been decoded
\* into a receiver that held an extension of its own.
C15_Witness ==
    /\ Decoded /\ res.out = "ok" /\ res.prior = Populated
    /\ Len(Raws) = 3 /\ Len(r.Extensions) = 3
    /\ r.Extensions[1] # r.Extensions[2]
    /\ r.Extensions[2] # r.Extensions[3]
    /\ r.Extensions[1] # r.Extensions[3]

-----------------------------------------------------------------------------
\* The decode u has the outcome, the document and the log records of the
\* decode recorded in res.
SameDecode(u) == u.out = res.out /\ u.r = r /\ u.logs = res.logs

\* C16: a decode gives the same outcome, the same document and the same log
\* records as the decode of the same input into the same receiver after one
\* more registration of any prototype that is already registered.
C16_DuplicateHarmless ==
    Decoded =>
        \A j \in DOMAIN res.reg :
            SameDecode(UnmarshalJSON(res.prior, res.data,
                                     RegistryAppend(res.reg, res.reg[j]), res.lg))

\* Some element was resolved by a prototype and some element fell back to a
\* mapping and was logged.
ResolvedAndFellBack(raws, reg, logs) ==
    /\ \E i \in DOMAIN raws : AcceptedBySome(reg, raws[i])
    /\ \E i \in DOMAIN raws :
          ~AcceptedBySome(reg, raws[i]) /\ LogsAbout(logs, i - 1) # <<>>

\* Under two different prototypes a decode has resolved one element by a
\* prototype and logged another.
C16_Witness ==
    /\ Decoded /\ res.out = "ok" /\ Len(res.reg) = 2 /\ res.reg[1] # res.reg[2]
    /\ ResolvedAndFellBack(Raws, res.reg, res.logs)

-----------------------------------------------------------------------------
\* A prototype as a value of its type, and as a pointer to it.
AsValue(p) == IF p.t = "ptr" THEN p.e ELSE p
AsPointer(p) == IF p.t = "ptr" THEN p ELSE TPtr(p)

\* Every element that the prototype at position j is the first to accept has
\* resolved to the value of the prototype's underlying type, not a pointer.
ValuesOfUnderlyingType(raws, reg, exts) ==
    \A i \in DOMAIN raws \cap DOMAIN exts :
        \A j \in DOMAIN reg :
            (/\ AsValue(reg[j]).t = "struct"
             /\ UnmarshalStruct(raws[i], AsValue(reg[j])).ok
             /\ \A h \in 1..(j - 1) : ~Accepts(reg[h], raws[i]))
            => exts[i] = UnmarshalStruct(raws[i], AsValue(reg[j])).v

-----------------------------------------------------------------------------
\* C18: when the decode returns an error, the receiver holds in every field,
\* the extension sequence included, the value it held before the call.
C18_ReceiverKeptOnError ==
    (Decoded /\ res.out = "err") => r = res.prior

\* A receiver with content of its own has refused an object whose status is
\* a string and still holds that content.
C18_Witness ==
    /\ Decoded /\ res.out = "err"
    /\ res.prior = Populated /\ r = Populated
    /\ StringStatusWithExtensions(res.data)

-----------------------------------------------------------------------------
\* The field of document d named by the JSON key n.
FieldOf(d, n) ==
    CASE n = "type" -> d.Type
      [] n = "title" -> d.Title
      [] n = "status" -> d.Status
      [] n = "detail" -> d.Detail
      [] OTHER -> d.Instance

ZeroOf(n) == IF n = "status" THEN 0 ELSE <<>>

\* Every fixed field that input d does not name is zero in document doc.
AbsentFieldsZero(d, doc) ==
    \A n \in FixedFields :
        (d.k = "null" \/ ~HasMember(d.m, n)) => FieldOf(doc, n) = ZeroOf(n)

\* C19: after a decode that returns without error the receiver is what the
\* same input under the same registry gives in any other receiver: fixed
\* fields the input does not name are zero and the extensions are those of
\* the input alone, one per element.
C19_FullyOverwritten ==
    (Decoded /\ res.out = "ok") =>
        /\ \A other \in Receivers :
              r = UnmarshalJSON(other, res.data, res.reg, TRUE).r
        /\ AbsentFieldsZero(res.data, r)
        /\ Len(r.Extensions) = Len(Raws)

\* A receiver holding a detail, an instance and an extension has decoded an
\* input that names neither detail nor instance and has extension elements.
C19_Witness ==
    /\ Decoded /\ res.out = "ok" /\ res.prior = Populated
    /\ r.Detail = <<>> /\ r.Instance = <<>>
    /\ Raws # <<>> /\ Len(r.Extensions) = Len(Raws)
    /\ r.Extensions[1] # Populated.Extensions[1]

-----------------------------------------------------------------------------
\* C20: every call of RegisterExtension, whatever the prototype, appends it
\* to the registry, and with a logger set a decode of a document with at
\* least one extension element does not panic under any registry so built.
C20_RegistrationSafe ==
    /\ registeredExtensions = regHistory
    /\ (Decoded /\ res.lg = TRUE /\ AliasParses /\ Raws # <<>>) => res.out # "panic"

====
